---------------------------- MODULE Spec2Model ----------------------------
(***************************************************************************)
(* exif-chdate (src/main.rs): rewrite the date of the EXIF timestamps of a *)
(* batch of image files, one tokio task per file, at most max_concurrency  *)
(* tasks past the semaphore at a time.                                     *)
(*                                                                         *)
(* Text is a sequence of one-character strings.  An Option<T> is a         *)
(* sequence of length 0 (None) or 1 (Some(v)).                             *)
(***************************************************************************)
EXTENDS Integers, Sequences, FiniteSets, TLC

(***************************************************************************)
(* Bounds of the model.                                                    *)
(***************************************************************************)
\* Largest number of file arguments of a batch.
MaxFiles == 3
\* Largest number of logical CPUs (the semaphore's capacity).
MaxCpus == 2
\* Longest free-form text given to build_new_datetime.
MaxLen == 4
\* Largest number of command-line arguments.
MaxArgs == 4

(***************************************************************************)
(* Text helpers.                                                           *)
(***************************************************************************)
None == << >>
Some(v) == << v >>

Digit(n) ==
    CASE n = 0 -> "0" [] n = 1 -> "1" [] n = 2 -> "2" [] n = 3 -> "3"
      [] n = 4 -> "4" [] n = 5 -> "5" [] n = 6 -> "6" [] n = 7 -> "7"
      [] n = 8 -> "8" [] n = 9 -> "9"

Digits == { Digit(n) : n \in 0..9 }

RECURSIVE Decimal(_)
\* The decimal digits of a natural number, as Rust's Display prints it.
Decimal(n) ==
    IF n < 10 THEN << Digit(n) >>
    ELSE Append(Decimal(n \div 10), Digit(n % 10))

RECURSIVE ZeroPad(_, _)
ZeroPad(s, width) ==
    IF Len(s) >= width THEN s ELSE ZeroPad(<< "0" >> \o s, width)

\* format!("{:02}", n)
Fmt02(n) == ZeroPad(Decimal(n), 2)

\* Index of the first element of s that is in the set cs, 0 when there is none
\* (str::find, the first item boundary of str::splitn / str::split).
Find(s, cs) ==
    IF \E i \in 1..Len(s) : s[i] \in cs
    THEN CHOOSE i \in 1..Len(s) : s[i] \in cs /\ \A j \in 1..(i - 1) : s[j] \notin cs
    ELSE 0

(***************************************************************************)
(* build_new_datetime                                                      *)
(***************************************************************************)
\* orig.splitn(2, ' '): the items, at most two.
Splitn2(orig) ==
    LET sp == Find(orig, {" "})
    IN  IF sp = 0 THEN << orig >>
        ELSE << SubSeq(orig, 1, sp - 1), SubSeq(orig, sp + 1, Len(orig)) >>

\* SplitTz with the offset taken from after the sign.
SplitTzNoSign(time_and_tz) ==
    LET idx == Find(time_and_tz, {"+", "-"})
    IN  IF idx # 0
        THEN << SubSeq(time_and_tz, 1, idx - 1), SubSeq(time_and_tz, idx + 1, Len(time_and_tz)) >>
        ELSE << time_and_tz, << >> >>

\* The tuple (time_part, tz_offset) of lines 56-60.
SplitTz(time_and_tz) ==
    LET idx == Find(time_and_tz, {"+", "-"})
    IN  IF idx # 0
        THEN << SubSeq(time_and_tz, 1, idx - 1), SubSeq(time_and_tz, idx, Len(time_and_tz)) >>
        ELSE << time_and_tz, << >> >>

\* SplitFirst that does not split: the whole date segment as the year.
SplitFirstWhole(date_part) == Some(date_part)

\* date_part.split(':').next(): split always yields a first item, the whole
\* text when it holds no ':'.
SplitFirst(date_part) ==
    LET c == Find(date_part, {":"})
    IN  IF c = 0 THEN Some(date_part) ELSE Some(SubSeq(date_part, 1, c - 1))

\* format!("{}:{}:{} {}{}", ...)
FormatDatetime(year_to_use, new_month, new_day, time_part, tz_offset) ==
    year_to_use \o << ":" >> \o new_month \o << ":" >> \o new_day
        \o << " " >> \o time_part \o tz_offset

\* UnwrapOr that ignores the supplied value.
UnwrapOrDefault(opt, default) == default

\* Option::unwrap_or
UnwrapOr(opt, default) == IF opt = None THEN default ELSE opt[1]

build_new_datetime(orig, new_year, new_month, new_day) ==
    LET parts == Splitn2(orig)
    IN  IF Len(parts) < 2 THEN None
        ELSE
          LET date_part   == parts[1]
              time_and_tz == parts[2]
              tt          == SplitTz(time_and_tz)
              orig_year   == SplitFirst(date_part)
          IN  IF orig_year = None THEN None
              ELSE Some(FormatDatetime(UnwrapOr(new_year, orig_year[1]),
                                       new_month, new_day, tt[1], tt[2]))


(***************************************************************************)
(* get_original_datetime and write_new_datetime                            *)
(***************************************************************************)
Whitespace == { " ", "\n", "\t", "\r" }

RECURSIVE TrimStart(_)
TrimStart(s) ==
    IF s # << >> /\ Head(s) \in Whitespace THEN TrimStart(Tail(s)) ELSE s

RECURSIVE TrimEnd(_)
TrimEnd(s) ==
    IF s # << >> /\ s[Len(s)] \in Whitespace THEN TrimEnd(SubSeq(s, 1, Len(s) - 1)) ELSE s

\* Trim that strips the end only.
TrimEndOnly(s) == TrimEnd(s)

\* str::trim
Trim(s) == TrimEnd(TrimStart(s))

\* A byte of a process's output is an ASCII character or a byte that is not
\* valid UTF-8; String::from_utf8_lossy puts U+FFFD in place of the latter
\* and never fails.
InvalidByte == "<invalid>"
Replacement == "<U+FFFD>"
FromUtf8Lossy(bytes) ==
    [ i \in 1..Len(bytes) |-> IF bytes[i] = InvalidByte THEN Replacement ELSE bytes[i] ]

\* What awaiting a child process yields: spawned is FALSE when the io::Error
\* arm is taken, success is the exit status, stdout the captured output.
ProcessOutput(spawned, success, stdout) ==
    [ spawned |-> spawned, success |-> success, stdout |-> stdout ]

get_original_datetime(output) ==
    IF ~output.spawned THEN None
    ELSE IF ~output.success THEN None
    ELSE LET txt == Trim(FromUtf8Lossy(output.stdout))
         IN  IF txt = << >> THEN None ELSE Some(txt)

write_new_datetime(status) ==
    IF ~status.spawned THEN "Err"
    ELSE IF status.success THEN "Ok" ELSE "Err"

\* WriteCommand of an exiftool call that leaves ModifyDate out.
WriteCommandNoModify(file, new_dt) ==
    [ file |-> file, DateTimeOriginal |-> new_dt, CreateDate |-> new_dt,
      ModifyDate |-> << >> ]

\* The three tag assignments of the write command line.
WriteCommand(file, new_dt) ==
    [ file |-> file, DateTimeOriginal |-> new_dt, CreateDate |-> new_dt,
      ModifyDate |-> new_dt ]

(***************************************************************************)
(* State.                                                                  *)
(***************************************************************************)
VARIABLES
    \* main
    args,             \* the command-line arguments
    exit_status,      \* None while the process runs, else Some(its exit status)
    files,            \* the file arguments, a sequence of paths
    month, day,       \* the zero-padded month and day
    year_opt,         \* Option: the year argument
    max_concurrency,  \* num_cpus::get()
    semaphore,        \* the permits available in the semaphore
    handles,          \* the JoinHandles pushed so far (task ids)
    joined,           \* how many handles the join loop has awaited
    main_pc,          \* "parse", "spawn", "join" or "exited"
    surfaced,         \* the tasks whose panic main has surfaced
    \* the tasks, one per file argument
    pc,               \* "unspawned", "acquire", "read", "write", "done", "panicked"
    permit,           \* whether the task owns _permit
    read_ret,         \* << >> or << the value get_original_datetime returned >>
    build_ret,        \* << >> or << the value build_new_datetime returned >>
    write_ret,        \* << >> or << the value write_new_datetime returned >>
    write_cmd,        \* the write command lines the task launched
    printed,          \* the lines the task printed
    \* the file system
    tags,             \* path -> the three date tags of the file
    tags0,            \* the tags before the run
    \* a caller of build_new_datetime alone
    t_orig, t_new_year, t_new_month, t_new_day,
    t_result,         \* the values of successive applications
    \* a caller of get_original_datetime alone
    g_output,         \* << >> or << what awaiting exiftool yielded >>
    g_result          \* << >> or << the value get_original_datetime returned >>

mainVars == << args, exit_status, files, month, day, year_opt, max_concurrency,
               handles, joined, main_pc, surfaced >>
taskVars == << pc, permit, read_ret, build_ret, write_ret, write_cmd, printed,
               semaphore >>
fsVars   == << tags, tags0 >>
callVars == << t_orig, t_new_year, t_new_month, t_new_day, t_result,
               g_output, g_result >>
vars     == << mainVars, taskVars, fsVars, callVars >>

Tasks == 1..Len(files)

(***************************************************************************)
(* Inputs.                                                                 *)
(***************************************************************************)
Colon == << ":" >>
Timestamp(y, mo, d, h, mi, s, tz) ==
    ZeroPad(Decimal(y), 4) \o Colon \o Fmt02(mo) \o Colon \o Fmt02(d) \o << " " >>
        \o Fmt02(h) \o Colon \o Fmt02(mi) \o Colon \o Fmt02(s) \o tz

Offset(sign, h, mi) == << sign >> \o Fmt02(h) \o Colon \o Fmt02(mi)

Offsets == { << >>, Offset("+", 2, 0), Offset("-", 7, 30) }

\* Timestamps of the shape exiftool prints.
WellFormed ==
    { Timestamp(y, 5, 17, t[1], t[2], t[3], tz) :
        y \in { 2021, 1999 }, t \in { << 14, 3, 22 >>, << 0, 0, 0 >> }, tz \in Offsets }

Alphabet == { "2", ":", " ", "+", "-" }
FreeText == UNION { [ 1..n -> Alphabet ] : n \in 0..MaxLen }

Garbage == << "g", "a", "r", "b", "a", "g", "e" >>

\* The year argument is kept only when it is four ASCII digits (line 164).
YearArgs == { None, Some(ZeroPad(Decimal(1999), 4)), Some(ZeroPad(Decimal(2021), 4)) }
\* Day and month are numbers in range (lines 148-157), printed with {:02}.
MonthArgs == { Fmt02(m) : m \in { 1, 12 } }
DayArgs == { Fmt02(d) : d \in { 9, 25 } }

\* The DateTimeOriginal a file of a batch holds: text that is no timestamp,
\* or a timestamp.  (A file without the tag makes exiftool print nothing,
\* which process_file treats as it treats a failed exiftool.)
TagValues == { Garbage, Timestamp(2021, 5, 17, 14, 3, 22, Offset("+", 2, 0)) }

FileTags(v) == [ DateTimeOriginal |-> v, CreateDate |-> v, ModifyDate |-> v ]

\* The path of the i-th file of a batch.
Path(i) == << "f", Digit(i) >>

(***************************************************************************)
(* Initial states.                                                         *)
(***************************************************************************)
\* No call of get_original_datetime outside the batch.
ReadIdle ==
    /\ g_output = << >>
    /\ g_result = << >>

\* No call of build_new_datetime outside the batch.
TransformIdle ==
    /\ t_orig = << >>
    /\ t_new_year = None
    /\ t_new_month = << >>
    /\ t_new_day = << >>
    /\ t_result = << >>

CallIdle == TransformIdle /\ ReadIdle

\* main after argument parsing and the creation of the semaphore (line 185):
\* at least one file, each a path of its own; nothing spawned yet.
Init ==
    /\ \E k \in 1..MaxFiles : files = [ i \in 1..k |-> Path(i) ]
    /\ month = Fmt02(12)
    /\ day = Fmt02(25)
    /\ year_opt \in { None, Some(ZeroPad(Decimal(1999), 4)) }
    /\ args = << Decimal(25), Decimal(12) >>
                \o (IF year_opt = None THEN << >> ELSE << year_opt[1] >>) \o files
    /\ exit_status = None
    /\ max_concurrency \in 1..MaxCpus
    /\ semaphore = max_concurrency
    /\ handles = << >>
    /\ joined = 0
    /\ main_pc = "spawn"
    /\ surfaced = { }
    /\ pc = [ w \in Tasks |-> "unspawned" ]
    /\ permit = [ w \in Tasks |-> FALSE ]
    /\ read_ret = [ w \in Tasks |-> << >> ]
    /\ build_ret = [ w \in Tasks |-> << >> ]
    /\ write_ret = [ w \in Tasks |-> << >> ]
    /\ write_cmd = [ w \in Tasks |-> << >> ]
    /\ printed = [ w \in Tasks |-> << >> ]
    /\ tags \in [ { files[w] : w \in Tasks } -> { FileTags(v) : v \in TagValues } ]
    /\ tags0 = tags
    /\ CallIdle

(***************************************************************************)
(* main: the spawn loop and the join loop.                                 *)
(***************************************************************************)
Finished(w) == pc[w] \in { "done", "panicked" }

\* SpawnReady of a loop that runs each file to its end before the next.
SpawnReadySerial == \A i \in 1..Len(handles) : Finished(handles[i])

\* tokio::spawn hands the future to the runtime and returns at once.
SpawnReady == TRUE

\* One iteration of the loop of lines 187-198.
Spawn ==
    /\ main_pc = "spawn"
    /\ SpawnReady
    /\ LET i == Len(handles) + 1
       IN  /\ handles' = Append(handles, i)
           /\ pc' = [ pc EXCEPT ![i] = "acquire" ]
           /\ main_pc' = IF i = Len(files) THEN "join" ELSE "spawn"
    /\ UNCHANGED << args, exit_status, files, month, day, year_opt, max_concurrency,
                    joined, surfaced >>
    /\ UNCHANGED << permit, read_ret, build_ret, write_ret, write_cmd, printed, semaphore >>
    /\ UNCHANGED << fsVars, callVars >>

\* JoinReady of a handle that is not awaited to completion.
JoinDetached(h) == TRUE

\* JoinReady of an await that is over as soon as the task has its permit.
JoinReadyStarted(h) == pc[h] \notin { "unspawned", "acquire" }

\* h.await is ready once the task has returned or panicked.
JoinReady(h) == Finished(h)

\* What main keeps of the Result of h.await: `let _ =` keeps nothing.
Surface(h) == surfaced

\* ExitAfterBatch of a main that reports a failed file in its exit status.
ExitAfterBatchFailing ==
    IF \E w \in Tasks :
          pc[w] = "panicked" \/ (printed[w] # << >> /\ printed[w][1].kind # "Success")
    THEN 1 ELSE 0

\* main returns (): the process exits with status 0.
ExitAfterBatch == 0

\* One iteration of the loop of lines 201-204; after the last, main returns.
Join ==
    /\ main_pc = "join"
    /\ LET h == handles[joined + 1]
       IN  /\ JoinReady(h)
           /\ surfaced' = Surface(h)
    /\ joined' = joined + 1
    /\ main_pc' = IF joined' = Len(handles) THEN "exited" ELSE "join"
    /\ exit_status' = IF joined' = Len(handles) THEN Some(ExitAfterBatch) ELSE exit_status
    /\ UNCHANGED << args, files, month, day, year_opt, max_concurrency, handles >>
    /\ UNCHANGED << taskVars, fsVars, callVars >>

(***************************************************************************)
(* process_file                                                            *)
(***************************************************************************)
\* The task printed one of the three failure lines.
Failed(w) ==
    \E i \in 1..Len(printed[w]) :
        printed[w][i].kind \in { "SkippedUnreadable", "SkippedMalformed", "WriteFailed" }

\* CanAcquire of a semaphore that never makes a task wait.
CanAcquireAlways == TRUE

\* CanAcquire of a batch that admits no further task once a file has failed.
CanAcquireFailFast == semaphore > 0 /\ \A v \in Tasks : ~Failed(v)

\* sem.acquire() completes when a permit is available.
CanAcquire == semaphore > 0

\* Line 104.  The task then runs get_original_datetime up to its await.
Acquire(w) ==
    /\ pc[w] = "acquire"
    /\ CanAcquire
    /\ semaphore' = semaphore - 1
    /\ permit' = [ permit EXCEPT ![w] = TRUE ]
    /\ pc' = [ pc EXCEPT ![w] = "read" ]
    /\ UNCHANGED << read_ret, build_ret, write_ret, write_cmd, printed >>
    /\ UNCHANGED << mainVars, fsVars, callVars >>

Line(kind, file, dt) == [ kind |-> kind, file |-> file, dt |-> dt ]

\* Dropped of a permit that the two skip returns leak.
DroppedUnlessSkipped(w, kind) == kind \notin { "SkippedUnreadable", "SkippedMalformed" }

\* Dropped of a permit that only the successful end of process_file gives back.
DroppedOnSuccess(w, kind) == kind = "Success"

\* _permit is a local of process_file: it is dropped when the function
\* returns, by whichever return, and when a panic unwinds it.
Dropped(w, kind) == TRUE

\* Return of a task whose panic leaves its permit taken.
ReturnLeakOnPanic(w, line, print_ok) ==
    /\ pc' = [ pc EXCEPT ![w] = IF print_ok THEN "done" ELSE "panicked" ]
    /\ printed' = [ printed EXCEPT ![w] = IF print_ok THEN Append(@, line) ELSE @ ]
    /\ permit' = [ permit EXCEPT ![w] = ~print_ok ]
    /\ semaphore' = IF print_ok THEN semaphore + 1 ELSE semaphore

\* The end of process_file after its print: the line is printed and the
\* function returns, or the print macro panics (the stream cannot be
\* written) and the task unwinds.
Return(w, line, print_ok) ==
    /\ pc' = [ pc EXCEPT ![w] = IF print_ok THEN "done" ELSE "panicked" ]
    /\ printed' = [ printed EXCEPT ![w] = IF print_ok THEN Append(@, line) ELSE @ ]
    /\ permit' = [ permit EXCEPT ![w] = ~Dropped(w, line.kind) ]
    /\ semaphore' = IF Dropped(w, line.kind) THEN semaphore + 1 ELSE semaphore

\* What `exiftool -DateTimeOriginal -s -s -s file` may give: it cannot be
\* run, it fails, or it prints the tag's value and a line break (nothing
\* for a file without the tag).
ExifRead(file) ==
    LET v == tags[file].DateTimeOriginal
    IN  { ProcessOutput(FALSE, FALSE, << >>),
          ProcessOutput(TRUE, FALSE, << >>),
          ProcessOutput(TRUE, TRUE, IF v = << >> THEN << >> ELSE v \o << "\n" >>) }

\* WritePlan that writes the original text back when build_new_datetime
\* returned nothing.
WritePlanFallback(orig_dt, new_dt) ==
    IF orig_dt = None THEN None
    ELSE IF new_dt = None THEN Some(orig_dt[1]) ELSE Some(new_dt[1])

\* The text process_file hands to write_new_datetime: None when it returns
\* before the write (one of the two matches of lines 107-128 took its None
\* arm), else the value build_new_datetime returned.
WritePlan(orig_dt, new_dt) ==
    IF orig_dt = None \/ new_dt = None THEN None ELSE Some(new_dt[1])

\* SkipKind of a task that reports every skip as an unreadable file.
SkipKindUnreadable(orig_dt) == "SkippedUnreadable"

\* Which of the two skip lines is printed: the None arm of the match on the
\* read (lines 109-115), else that of the match on build_new_datetime
\* (lines 121-127).
SkipKind(orig_dt) ==
    IF orig_dt = None THEN "SkippedUnreadable" ELSE "SkippedMalformed"

\* Lines 107-131: the read's process ends; the task runs to its return or to
\* the await of the write.
ReadExit(w) ==
    /\ pc[w] = "read"
    /\ \E output \in ExifRead(files[w]), print_ok \in BOOLEAN :
         LET orig_dt == get_original_datetime(output)
             new_dt  == IF orig_dt = None THEN None
                        ELSE build_new_datetime(orig_dt[1], year_opt, month, day)
             plan    == WritePlan(orig_dt, new_dt)
         IN  /\ read_ret' = [ read_ret EXCEPT ![w] = << orig_dt >> ]
             /\ build_ret' = [ build_ret EXCEPT ![w] =
                                 IF orig_dt = None THEN << >> ELSE << new_dt >> ]
             /\ IF plan # None
                THEN /\ write_cmd' = [ write_cmd EXCEPT ![w] =
                                         Append(@, WriteCommand(files[w], plan[1])) ]
                     /\ pc' = [ pc EXCEPT ![w] = "write" ]
                     /\ UNCHANGED << printed, permit, semaphore >>
                ELSE /\ Return(w, Line(SkipKind(orig_dt), files[w], None), print_ok)
                     /\ UNCHANGED write_cmd
    /\ UNCHANGED << write_ret, mainVars, fsVars, callVars >>

\* How the write's process may end: it cannot be run, it fails, it succeeds.
ExifWrite ==
    { ProcessOutput(FALSE, FALSE, << >>),
      ProcessOutput(TRUE, FALSE, << >>),
      ProcessOutput(TRUE, TRUE, << >>) }

\* Lines 131-135: the write's process ends; a successful exiftool has set
\* the three tags of the file in place.
WriteExit(w) ==
    /\ pc[w] = "write"
    /\ \E status \in ExifWrite, print_ok \in BOOLEAN :
         LET cmd == write_cmd[w][Len(write_cmd[w])]
             res == write_new_datetime(status)
         IN  /\ write_ret' = [ write_ret EXCEPT ![w] = << res >> ]
             /\ tags' = IF status.spawned /\ status.success
                        THEN [ tags EXCEPT ![cmd.file] =
                                 [ DateTimeOriginal |-> cmd.DateTimeOriginal,
                                   CreateDate |-> cmd.CreateDate,
                                   ModifyDate |-> cmd.ModifyDate ] ]
                        ELSE tags
             /\ Return(w, Line(IF res = "Ok" THEN "Success" ELSE "WriteFailed",
                               files[w],
                               IF res = "Ok" THEN Some(cmd.DateTimeOriginal) ELSE None),
                       print_ok)
    /\ UNCHANGED << read_ret, build_ret, write_cmd, tags0, mainVars, callVars >>

Next ==
    \/ Spawn
    \/ Join
    \/ \E w \in Tasks : Acquire(w)
    \/ \E w \in Tasks : ReadExit(w)
    \/ \E w \in Tasks : WriteExit(w)

Spec == Init /\ [][Next]_vars

(***************************************************************************)
(* main from its start: argument parsing (lines 142-185), then the batch.  *)
(***************************************************************************)
DigitValue(c) == CHOOSE n \in 0..9 : Digit(n) = c

RECURSIVE DecimalValue(_)
DecimalValue(ds) ==
    IF ds = << >> THEN 0
    ELSE 10 * DecimalValue(SubSeq(ds, 1, Len(ds) - 1)) + DigitValue(ds[Len(ds)])

\* str::parse::<u32>: an optional '+' and at least one digit.  (No argument
\* of the model is long enough to overflow a u32.)
ParseU32(s) ==
    LET body == IF s # << >> /\ s[1] = "+" THEN Tail(s) ELSE s
    IN  IF body = << >> \/ \E i \in 1..Len(body) : body[i] \notin Digits
        THEN None
        ELSE Some(DecimalValue(body))

\* IsYear without the test of the length.
IsYearAnyLength(arg) == \A i \in 1..Len(arg) : arg[i] \in Digits

\* Line 164: args[idx].len() == 4 and every character an ASCII digit.
IsYear(arg) == Len(arg) = 4 /\ \A i \in 1..Len(arg) : arg[i] \in Digits

\* usage() and the other std::process::exit(1) calls.
ExitUsage == 1
\* The exit status of a process whose main panicked (expect, lines 148-149).
ExitPanic == 101

Rejected(status) ==
    [ exit |-> Some(status), month |-> << >>, day |-> << >>, year_opt |-> None,
      files |-> << >> ]

\* What lines 142-174 make of the arguments: an exit status, or the edit
\* and the files.
ParseArgs(a) ==
    IF Len(a) < 3 THEN Rejected(ExitUsage)
    ELSE IF ParseU32(a[1]) = None THEN Rejected(ExitPanic)
    ELSE IF ParseU32(a[2]) = None THEN Rejected(ExitPanic)
    ELSE
      LET day_num   == ParseU32(a[1])[1]
          month_num == ParseU32(a[2])[1]
      IN  IF day_num \notin 1..31 THEN Rejected(ExitUsage)
          ELSE IF month_num \notin 1..12 THEN Rejected(ExitUsage)
          ELSE
            LET year == IsYear(a[3])
                idx  == IF year THEN 3 ELSE 2
            IN  [ exit     |-> IF Len(a) <= idx THEN Some(ExitUsage) ELSE None,
                  month    |-> Fmt02(month_num),
                  day      |-> Fmt02(day_num),
                  year_opt |-> IF year THEN Some(a[3]) ELSE None,
                  files    |-> SubSeq(a, idx + 1, Len(a)) ]

\* Lines 142-185: the process exits, or the semaphore is made and main
\* stands before its spawn loop.
Parse ==
    /\ main_pc = "parse"
    /\ LET p == ParseArgs(args)
           n == IF p.exit = None THEN Len(p.files) ELSE 0
       IN  /\ exit_status' = p.exit
           /\ main_pc' = IF p.exit = None THEN "spawn" ELSE "exited"
           /\ month' = p.month
           /\ day' = p.day
           /\ year_opt' = p.year_opt
           /\ files' = p.files
           /\ semaphore' = IF p.exit = None THEN max_concurrency ELSE semaphore
           /\ pc' = [ w \in 1..n |-> "unspawned" ]
           /\ permit' = [ w \in 1..n |-> FALSE ]
           /\ read_ret' = [ w \in 1..n |-> << >> ]
           /\ build_ret' = [ w \in 1..n |-> << >> ]
           /\ write_ret' = [ w \in 1..n |-> << >> ]
           /\ write_cmd' = [ w \in 1..n |-> << >> ]
           /\ printed' = [ w \in 1..n |-> << >> ]
    /\ UNCHANGED << args, max_concurrency, handles, joined, surfaced >>
    /\ UNCHANGED << fsVars, callVars >>

Text1(a) == << a >>
Text4(a, b, c, d) == << a, b, c, d >>

\* Arguments typed for the day, for the month, and after them.
DayTokens == { Decimal(25), Decimal(9), Decimal(0), Text1("x") }
MonthTokens == { Decimal(12), Decimal(13), Text1("x") }
RestTokens == { Decimal(1999), Decimal(199), Text4("2", "0", "a", "1"), Path(1) }

\* The arguments after the month: each at most once (each file a path of
\* its own).
RestLists ==
    { r \in UNION { [ 1..n -> RestTokens ] : n \in 1..(MaxArgs - 2) } :
        \A i, j \in 1..Len(r) : r[i] = r[j] => i = j }

ArgLists ==
    { << >> } \cup { << d >> : d \in DayTokens }
        \cup { << d, m >> : d \in DayTokens, m \in MonthTokens }
        \cup { << d, m >> \o r : d \in DayTokens, m \in MonthTokens, r \in RestLists }

\* The process at its start.
CliInit ==
    /\ args \in ArgLists
    /\ exit_status = None
    /\ files = << >>
    /\ month = << >>
    /\ day = << >>
    /\ year_opt = None
    /\ max_concurrency \in 1..MaxCpus
    /\ semaphore = 0
    /\ handles = << >>
    /\ joined = 0
    /\ main_pc = "parse"
    /\ surfaced = { }
    /\ pc = << >>
    /\ permit = << >>
    /\ read_ret = << >>
    /\ build_ret = << >>
    /\ write_ret = << >>
    /\ write_cmd = << >>
    /\ printed = << >>
    /\ tags = [ p \in RestTokens |->
                 FileTags(IF p = Text4("2", "0", "a", "1") THEN Garbage
                          ELSE Timestamp(2021, 5, 17, 14, 3, 22, << >>)) ]
    /\ tags0 = tags
    /\ CallIdle

CliNext == Parse \/ Next

CliSpec == CliInit /\ [][CliNext]_vars

(***************************************************************************)
(* build_new_datetime called on its own: applied to an input, and applied  *)
(* again to the value it returned.                                         *)
(***************************************************************************)
\* No batch is running.
BatchIdle ==
    /\ args = << >>
    /\ exit_status = None
    /\ files = << >>
    /\ month = << >>
    /\ day = << >>
    /\ year_opt = None
    /\ max_concurrency = 1
    /\ semaphore = 1
    /\ handles = << >>
    /\ joined = 0
    /\ main_pc = "none"
    /\ surfaced = { }
    /\ pc = << >>
    /\ permit = << >>
    /\ read_ret = << >>
    /\ build_ret = << >>
    /\ write_ret = << >>
    /\ write_cmd = << >>
    /\ printed = << >>
    /\ tags = << >>
    /\ tags0 = << >>

TransformInit ==
    /\ t_orig \in WellFormed \cup FreeText \cup { Garbage }
    /\ t_new_year \in YearArgs
    /\ t_new_month \in MonthArgs
    /\ t_new_day \in DayArgs
    /\ t_result = << >>
    /\ ReadIdle
    /\ BatchIdle

Apply ==
    /\ t_result = << >>
    /\ t_result' = << build_new_datetime(t_orig, t_new_year, t_new_month, t_new_day) >>
    /\ UNCHANGED << t_orig, t_new_year, t_new_month, t_new_day >>
    /\ UNCHANGED << g_output, g_result, mainVars, taskVars, fsVars >>

Reapply ==
    /\ Len(t_result) = 1
    /\ t_result[1] # None
    /\ t_result' = Append(t_result,
                          build_new_datetime(t_result[1][1], t_new_year, t_new_month, t_new_day))
    /\ UNCHANGED << t_orig, t_new_year, t_new_month, t_new_day >>
    /\ UNCHANGED << g_output, g_result, mainVars, taskVars, fsVars >>

TransformNext == Apply \/ Reapply

TransformSpec == TransformInit /\ [][TransformNext]_vars

(***************************************************************************)
(* get_original_datetime called on its own, on what awaiting exiftool may  *)
(* yield.                                                                  *)
(***************************************************************************)
Bytes == { "a", " ", "\n", InvalidByte }
ByteText == UNION { [ 1..n -> Bytes ] : n \in 0..MaxLen }

ReadInit ==
    /\ \E spawned \in BOOLEAN, success \in BOOLEAN, stdout \in ByteText :
         g_output = << ProcessOutput(spawned, success, stdout) >>
    /\ g_result = << >>
    /\ TransformIdle
    /\ BatchIdle

Read ==
    /\ g_result = << >>
    /\ g_result' = << get_original_datetime(g_output[1]) >>
    /\ UNCHANGED << g_output, t_orig, t_new_year, t_new_month, t_new_day, t_result >>
    /\ UNCHANGED << mainVars, taskVars, fsVars >>

ReadNext == Read

ReadSpec == ReadInit /\ [][ReadNext]_vars

(***************************************************************************)
(* The batch under fair scheduling: the tokio runtime polls every spawned  *)
(* task and main whenever they can run, and every exiftool process that    *)
(* was started exits.                                                      *)
(***************************************************************************)
Fairness ==
    /\ WF_vars(Spawn)
    /\ WF_vars(Join)
    /\ \A w \in 1..MaxFiles :
         /\ WF_vars(w \in Tasks /\ Acquire(w))
         /\ WF_vars(w \in Tasks /\ ReadExit(w))
         /\ WF_vars(w \in Tasks /\ WriteExit(w))

FairSpec == Spec /\ Fairness

(***************************************************************************)
(* Properties of the batch.                                                *)
(***************************************************************************)
\* The tasks past sem.acquire() that have not yet given their permit back.
Holding == { w \in Tasks : permit[w] \/ pc[w] \in { "read", "write" } }

AllFinished == \A w \in Tasks : Finished(w)

Kinds(w) == { printed[w][i].kind : i \in 1..Len(printed[w]) }

\* C1: at most max_concurrency tasks are past the acquire and before the
\* release, in every reachable state of every interleaving.
C1_AtMostCapacity == Cardinality(Holding) <= max_concurrency

\* All permits are out while another task of the batch waits for one.
C1_Witness ==
    /\ Cardinality(Holding) = max_concurrency
    /\ \E w \in Tasks : pc[w] = "acquire"

\* C2: a task that has ended, by any of its returns or by a panic, holds no
\* permit, and once every task has ended the semaphore has all its permits.
C2_PermitReleased ==
    /\ \A w \in Tasks : Finished(w) => ~permit[w]
    /\ (files # << >> /\ AllFinished) => semaphore = max_concurrency

\* Every task of a batch of three has ended, among them a skipped one, one
\* whose write failed and one that succeeded.
C2_Witness ==
    /\ Len(files) = 3
    /\ AllFinished
    /\ \E u, v, w \in Tasks :
         /\ Kinds(u) \cap { "SkippedUnreadable", "SkippedMalformed" } # { }
         /\ "WriteFailed" \in Kinds(v)
         /\ "Success" \in Kinds(w)

\* C3: main has left the join loop only when every task it spawned has
\* ended: none is still waiting for a permit, reading or writing.
C3_ReturnsAfterAll ==
    main_pc = "exited" =>
        /\ Len(handles) = Len(files)
        /\ \A w \in Tasks : pc[w] \notin { "unspawned", "acquire", "read", "write" }

\* main has returned from a batch in which one task returned and one panicked.
C3_Witness ==
    /\ main_pc = "exited"
    /\ \E v, w \in Tasks : pc[v] = "done" /\ pc[w] = "panicked"

\* C4: each task yields exactly one outcome, so a completed batch of K files
\* has K outcomes, one per file (a printed line, or a panic main surfaced).
C4_OneOutcomePerFile ==
    /\ \A w \in Tasks :
         Len(printed[w]) + (IF w \in surfaced THEN 1 ELSE 0) <= 1
    /\ main_pc = "exited" =>
         \A w \in Tasks :
             Len(printed[w]) + (IF w \in surfaced THEN 1 ELSE 0) = 1

\* What the results of a task's own three calls make its line.
OwnKind(w) ==
    IF read_ret[w] = << None >> THEN "SkippedUnreadable"
    ELSE IF build_ret[w] = << None >> THEN "SkippedMalformed"
    ELSE IF write_ret[w] = << "Err" >> THEN "WriteFailed"
    ELSE "Success"

OwnOutcome ==
    \A w \in Tasks :
        pc[w] = "done" =>
            /\ Len(printed[w]) = 1
            /\ printed[w][1].kind = OwnKind(w)
            /\ printed[w][1].file = files[w]

C6_CrashSurfaced ==
    \A i \in 1..joined : pc[handles[i]] = "panicked" => handles[i] \in surfaced

\* C7: a write is launched for a file only after the read of that file and
\* the transform both returned a value; a task whose read or transform
\* returned nothing launches no write and leaves the file's tags as they were.
C7_NoWriteAfterFailure ==
    \A w \in Tasks :
        /\ write_cmd[w] # << >> =>
             /\ Len(read_ret[w]) = 1 /\ read_ret[w][1] # None
             /\ Len(build_ret[w]) = 1 /\ build_ret[w][1] # None
        /\ (read_ret[w] = << None >> \/ build_ret[w] = << None >>) =>
             /\ write_cmd[w] = << >>
             /\ tags[files[w]] = tags0[files[w]]

\* One file was skipped as malformed while another file of the batch was
\* rewritten.
C7_Witness ==
    \E v, w \in Tasks :
        /\ "SkippedMalformed" \in Kinds(v)
        /\ "Success" \in Kinds(w)
        /\ tags[files[w]] # tags0[files[w]]

(***************************************************************************)
(* Properties of build_new_datetime.                                       *)
(***************************************************************************)
AreDigits(s, positions) == \A i \in positions : s[i] \in Digits

\* The shape YYYY:MM:DD HH:MM:SS, with or without +HH:MM / -HH:MM.
IsTimestamp(s) ==
    /\ Len(s) \in { 19, 25 }
    /\ AreDigits(s, { 1, 2, 3, 4, 6, 7, 9, 10, 12, 13, 15, 16, 18, 19 })
    /\ \A i \in { 5, 8, 14, 17 } : s[i] = ":"
    /\ s[11] = " "
    /\ Len(s) = 25 =>
         /\ s[20] \in { "+", "-" }
         /\ AreDigits(s, { 21, 22, 24, 25 })
         /\ s[23] = ":"

\* C8: for an original of the timestamp shape the result is yearToUse, ":",
\* newMonth, ":", newDay, one space, and then the original's time of day and
\* offset, sign included, character for character.
C8_TimeAndOffsetKept ==
    (t_result # << >> /\ IsTimestamp(t_orig)) =>
        LET year == IF t_new_year = None THEN SubSeq(t_orig, 1, 4) ELSE t_new_year[1]
            date == year \o << ":" >> \o t_new_month \o << ":" >> \o t_new_day
        IN  /\ t_result[1] # None
            /\ SubSeq(t_result[1][1], 1, 10) = date
            /\ \A i \in 1..10 : t_result[1][1][i] # " "
            /\ t_result[1][1][11] = " "
            /\ SubSeq(t_result[1][1], 12, Len(t_result[1][1]))
                 = SubSeq(t_orig, 12, Len(t_orig))

\* A timestamp with a negative offset was transformed with a new year.
C8_Witness ==
    /\ t_result # << >>
    /\ IsTimestamp(t_orig)
    /\ Len(t_orig) = 25
    /\ t_orig[20] = "-"
    /\ t_new_year # None

RECURSIVE TextBefore(_, _)
\* The text of s before its first c (all of s when it holds no c).
TextBefore(s, c) ==
    IF s = << >> \/ Head(s) = c THEN << >>
    ELSE << Head(s) >> \o TextBefore(Tail(s), c)

Holds(s, c) == \E i \in 1..Len(s) : s[i] = c

\* C9: the year of the result is newYear when it is supplied, whatever the
\* original's year, and the original's year (the text of its date segment
\* before the first ':') when newYear is omitted.
C9_YearChosen ==
    (t_result # << >> /\ t_result[1] # None) =>
        LET out_year == TextBefore(t_result[1][1], ":")
            date_seg == TextBefore(t_orig, " ")
        IN  /\ t_new_year # None => out_year = t_new_year[1]
            /\ (t_new_year = None /\ Holds(date_seg, ":")) =>
                 out_year = TextBefore(date_seg, ":")

\* A new year was supplied that differs from the year of the original.
C9_Witness ==
    /\ t_result # << >>
    /\ t_result[1] # None
    /\ IsTimestamp(t_orig)
    /\ t_new_year # None
    /\ t_new_year[1] # SubSeq(t_orig, 1, 4)

\* C10: applied to a value it returned, with the same new year, month and
\* day, build_new_datetime returns that value again.
C10_Idempotent ==
    Len(t_result) = 2 => (t_result[2] # None /\ t_result[2] = t_result[1])

\* A timestamp was transformed twice keeping its own year.
C10_Witness ==
    /\ Len(t_result) = 2
    /\ IsTimestamp(t_orig)
    /\ t_new_year = None

\* C11: build_new_datetime returns nothing for an original that holds no
\* space, and for one whose date segment (the text before the first space)
\* holds no ':'.
C11_MalformedRejected ==
    (t_result # << >> /\ (~Holds(t_orig, " ") \/ ~Holds(TextBefore(t_orig, " "), ":"))) =>
        t_result[1] = None

(***************************************************************************)
(* Properties of get_original_datetime.                                    *)
(***************************************************************************)
Undecodable(bytes) == \E i \in 1..Len(bytes) : bytes[i] = InvalidByte

Decoded(bytes) ==
    [ i \in 1..Len(bytes) |-> IF bytes[i] = InvalidByte THEN Replacement ELSE bytes[i] ]

\* s without the whitespace at its two ends.
Stripped(s) ==
    LET inner == { i \in 1..Len(s) : s[i] \notin { " ", "\n", "\t", "\r" } }
    IN  IF inner = { } THEN << >>
        ELSE SubSeq(s, CHOOSE i \in inner : \A j \in inner : i <= j,
                       CHOOSE i \in inner : \A j \in inner : j <= i)

\* C12 as claimed: for an exiftool that ran, the result is None when it
\* exited non-zero, when its output is not valid text, or when the text is
\* empty after trimming, and the trimmed text in every other case.
C12_NoneInThreeCases ==
    (g_result # << >> /\ g_output[1].spawned) =>
        g_result[1] =
            IF \/ ~g_output[1].success
               \/ Undecodable(g_output[1].stdout)
               \/ Stripped(g_output[1].stdout) = << >>
            THEN None
            ELSE Some(Stripped(g_output[1].stdout))

\* C12, amended: the result is None when exiftool cannot be run, when it
\* exits non-zero, or when its output, decoded with U+FFFD in place of every
\* invalid byte, is empty after trimming; in every other case it is that
\* decoded, trimmed text.  Output that is not valid text does not make it None.
C12_NoneOrTrimmedLossy ==
    g_result # << >> =>
        g_result[1] =
            IF \/ ~g_output[1].spawned
               \/ ~g_output[1].success
               \/ Stripped(Decoded(g_output[1].stdout)) = << >>
            THEN None
            ELSE Some(Stripped(Decoded(g_output[1].stdout)))

\* A successful exiftool printed text with whitespace at both ends and an
\* invalid byte, and get_original_datetime returned a value.
C12_Witness ==
    /\ g_result # << >>
    /\ g_result[1] # None
    /\ g_output[1].spawned /\ g_output[1].success
    /\ Undecodable(g_output[1].stdout)
    /\ Len(g_output[1].stdout) >= 3
    /\ g_output[1].stdout[1] = " "
    /\ g_output[1].stdout[Len(g_output[1].stdout)] = "\n"

(***************************************************************************)
(* Properties of main.                                                     *)
(***************************************************************************)
\* C13: the exit status is non-zero only when argument validation rejected
\* the arguments, before any task; once they are accepted, the process exits
\* with status 0 after the batch, whatever the tasks' outcomes.
C13_ExitStatus ==
    /\ exit_status # None <=> main_pc = "exited"
    /\ (exit_status # None /\ exit_status # Some(0)) =>
         (handles = << >> /\ ParseArgs(args).exit # None)
    /\ (main_pc = "exited" /\ handles # << >>) => exit_status = Some(0)

\* The process exited with status 0 from a batch in which one file was
\* skipped and the other task failed to write or panicked.
C13_Witness ==
    /\ exit_status = Some(0)
    /\ \E v, w \in Tasks :
         /\ "SkippedMalformed" \in Kinds(v)
         /\ "WriteFailed" \in Kinds(w) \/ pc[w] = "panicked"

AllDigits(a) == \A i \in 1..Len(a) : a[i] \in { "0", "1", "2", "3", "4", "5", "6", "7", "8", "9" }

\* C14: once day and month are accepted, the third argument is the year
\* exactly when it is four ASCII digits; the arguments after it (after the
\* month when it is no year) are the files; when none remains the process
\* exits with a non-zero status and no task is spawned.
C14_YearSniff ==
    (main_pc # "parse" /\ month # << >>) =>
        LET year  == Len(args[3]) = 4 /\ AllDigits(args[3])
            first == IF year THEN 4 ELSE 3
        IN  /\ year_opt = IF year THEN << args[3] >> ELSE << >>
            /\ files = [ i \in 1..(Len(args) - first + 1) |-> args[first + i - 1] ]
            /\ Len(args) < first =>
                 /\ exit_status # None /\ exit_status # Some(0)
                 /\ handles = << >>
                 /\ \A w \in DOMAIN pc : FALSE
            /\ Len(args) >= first => Len(pc) = Len(files)

\* A year was recognised, and among the files after it is one whose name is
\* all digits but not four of them.
C14_Witness ==
    /\ main_pc = "join"
    /\ year_opt # None
    /\ Len(files) >= 1
    /\ \E i \in 1..Len(files) : AllDigits(files[i])

(***************************************************************************)
(* Properties of process_file's outcome and of its write.                  *)
(***************************************************************************)
\* The number of tasks that printed a line of the kind.
Count(kind) == Cardinality({ w \in Tasks : kind \in Kinds(w) })

\* One read of the batch of three returned nothing, one write returned an
\* error and one write succeeded.
OneOfEach ==
    /\ Len(files) = 3
    /\ \E u, v, w \in Tasks :
         /\ read_ret[u] = << None >>
         /\ write_ret[v] = << "Err" >>
         /\ write_ret[w] = << "Ok" >>

\* The steps run in order and stop at the first that returns nothing.
StepsInOrder(w) ==
    /\ read_ret[w] \in { << >>, << None >> } => build_ret[w] = << >>
    /\ build_ret[w] \in { << >>, << None >> } => write_ret[w] = << >>

C16_WriteOwnValue ==
    \A w \in Tasks :
        LET own == tags0[files[w]].DateTimeOriginal
            new == build_new_datetime(own, year_opt, month, day)
        IN  /\ \A i \in 1..Len(write_cmd[w]) :
                 LET cmd == write_cmd[w][i]
                 IN  /\ cmd.file = files[w]
                     /\ cmd.CreateDate = cmd.DateTimeOriginal
                     /\ cmd.ModifyDate = cmd.DateTimeOriginal
                     /\ read_ret[w] = << << own >> >>
                     /\ new # << >>
                     /\ cmd.DateTimeOriginal = new[1]
            /\ Len(write_cmd[w]) <= 1
            /\ tags[files[w]] # tags0[files[w]] =>
                 /\ write_ret[w] = << "Ok" >>
                 /\ tags[files[w]] = [ DateTimeOriginal |-> new[1], CreateDate |-> new[1],
                                       ModifyDate |-> new[1] ]

\* A file's three tags were rewritten with a new year, next to a file of the
\* batch that holds another text and whose tags are as they were.
C16_Witness ==
    \E v, w \in Tasks :
        /\ year_opt # << >>
        /\ tags0[files[v]] # tags0[files[w]]
        /\ tags[files[w]] # tags0[files[w]]
        /\ Finished(v)
        /\ tags[files[v]] = tags0[files[v]]

(***************************************************************************)
(* Properties of the schedule.                                             *)
(***************************************************************************)
\* C17: main spawns a task for every file before it awaits any handle, and
\* a spawn never waits for a task: while main is in its spawn loop the next
\* spawn can be taken whatever the spawned tasks are doing, and main awaits
\* only when every file has its task.  (With two files and two permits or
\* more, two tasks then hold permits together and a later file's task ends
\* before an earlier one's: the witness.)
C17_DispatchNonBlocking ==
    /\ main_pc = "spawn" => (joined = 0 /\ ENABLED Spawn)
    /\ main_pc \in { "join", "exited" } => Len(handles) = Len(files)
    /\ joined > 0 => main_pc \in { "join", "exited" }

\* Two tasks hold permits at the same time while the task of a later file has
\* already ended before that of an earlier file, main having awaited none.
C17_Witness ==
    /\ max_concurrency >= 2
    /\ joined = 0
    /\ \E u, v \in Tasks :
         /\ u # v
         /\ pc[u] \in { "read", "write" }
         /\ pc[v] \in { "read", "write" }
    /\ \E u, v \in Tasks : u < v /\ Finished(v) /\ ~Finished(u)

\* The tasks whose exiftool process is running.
InFlight == { w \in Tasks : pc[w] \in { "read", "write" } }

\* A step in which the exiftool process of the task does not exit.
Hangs(w) == w \in InFlight /\ ~ReadExit(w) /\ ~WriteExit(w)

\* C18: as long as a task's exiftool process does not exit, the task stays
\* where it is, short of its end, keeps its permit, and main does not return;
\* while max_concurrency such processes run and none exits, no task that
\* waits for a permit starts its read.
C18_HangHoldsSlot ==
    [][ /\ \A w \in Tasks :
             Hangs(w) =>
                 /\ pc'[w] = pc[w]
                 /\ permit[w] /\ permit'[w]
                 /\ semaphore' < max_concurrency
                 /\ main_pc' # "exited"
        /\ (Cardinality(InFlight) = max_concurrency /\ \A w \in InFlight : Hangs(w)) =>
             \A v \in Tasks : pc[v] = "acquire" => pc'[v] = "acquire"
      ]_vars

\* Every permit is held by a task whose exiftool process runs, a task waits
\* for a permit, and main, having joined an earlier task, awaits a handle.
C18_Witness ==
    /\ Cardinality(InFlight) = max_concurrency
    /\ \E v \in Tasks : pc[v] = "acquire"
    /\ main_pc = "join"
    /\ joined >= 1

\* C19: with fair scheduling and every exiftool process exiting, every batch
\* completes, also one of more files than permits: each task gets a permit,
\* runs its read and ends, main returns, and no state short of main's return
\* is without a next step.
C19_BatchCompletes ==
    /\ [](main_pc # "exited" => ENABLED Next)
    /\ \A w \in 1..MaxFiles :
         [](w \in Tasks => <>(w \in Tasks /\ Finished(w) /\ read_ret[w] # << >>))
    /\ <>(main_pc = "exited" /\ AllFinished /\ joined = Len(files))

\* main has returned from a batch of more files than permits.
C19_Witness ==
    /\ Len(files) > max_concurrency
    /\ main_pc = "exited"
    /\ \A w \in Tasks : read_ret[w] # << >>

\* C20: a task that panics after it got its permit gives the permit back;
\* the other tasks of the batch are not starved by it: each of them still
\* gets a permit and ends, before main returns.
C20_CrashReleasesSlot ==
    /\ [](\A w \in Tasks : pc[w] = "panicked" => (~permit[w] /\ read_ret[w] # << >>))
    /\ [](((\E w \in Tasks : pc[w] = "panicked") /\ AllFinished) =>
             semaphore = max_concurrency)
    /\ (\E w \in Tasks : pc[w] = "panicked") ~> (AllFinished /\ main_pc = "exited")
    /\ [](main_pc = "exited" => AllFinished)

\* A task has panicked and another task now holds the only permit of the
\* batch, while a third still waits for it.
C20_Witness ==
    /\ max_concurrency = 1
    /\ \E u, v, w \in Tasks :
         /\ pc[v] = "panicked"
         /\ pc[w] \in { "read", "write" } /\ permit[w]
         /\ pc[u] = "acquire"

=============================================================================
